---- MODULE Spec2Model ----
(***************************************************************************)
(* A model of dataset_loaders/parallel_loader.py: the ThreadedDataset      *)
(* loader (sequence windowing, epoch/batch scheduling, the two bounded     *)
(* queues with their fetcher threads, step/reset/shuffle/finish) and the   *)
(* module-level worker threaded_fetch.                                     *)
(***************************************************************************)
EXTENDS Integers, Sequences, FiniteSets, TLC

\* ------------------------------------------------------------------ bounds
MaxThreads == 2    \* nthreads is drawn from 1..MaxThreads
MaxQueue == 2      \* queues_size is drawn from 1..MaxQueue
MaxBatch == 2      \* batch_size is drawn from 1..MaxBatch
EngNames == 3      \* number of names of the one subset of the engine runs
RngPeriod == 2     \* the seeded generator's state is a counter modulo RngPeriod
MaxSeqLen == 3     \* seq_length is drawn from 0..MaxSeqLen (windower runs)
MaxNames == 5      \* each subset holds 0..MaxNames names (windower runs)
MaxSkip == 2       \* overlap is drawn from -MaxSkip..MaxSeqLen, or None
MaxErrors == 1     \* at most MaxErrors fetches raise in one run
LiteThreads == 2   \* nthreads of the small engine runs: 1..LiteThreads
LiteQueue == 1     \* queues_size of the small engine runs: 1..LiteQueue
LiteNames == 1     \* names of the one subset of the small engine runs
SchedBatch == 4    \* batch_size of the scheduler runs: 1..SchedBatch
SchedNames == 10   \* the one subset of a scheduler run holds 1..SchedNames names
SchedPair == 2     \* each of two subsets of a scheduler run holds 1..SchedPair
MaxSpv == 1        \* seq_per_video of the scheduler runs: 0..MaxSpv
MaxClasses == 4    \* non_void_nclasses is drawn from -1..MaxClasses
MaxLabel == 5      \* void labels are drawn from 0..MaxLabel
MaxVoid == 2       \* _void_labels holds at most MaxVoid labels
MaxGT == 3         \* GTclasses lists a subset of 0..MaxGT (or the docstring's)
MaxPix == 2        \* a label array holds 1..MaxPix entries

\* ------------------------------------------------------------ plain values
Keys == {"A", "B"}
KeyOrder == <<"A", "B">>       \* the order in which dict.items() yields keys
None == <<>>                   \* Python's None (fill value, missing overlap)
Sentinel == "sentinel"         \* self.sentinel = object()

Min(a, b) == IF a < b THEN a ELSE b

\* [x] * n
Repeat(x, n) == [i \in 1..n |-> x]

\* s[a:b] for 0 <= a, 0-based, exclusive end, clipped to the list
PySlice(s, a, b) ==
    LET e == Min(b, Len(s))
    IN  IF a >= e THEN <<>> ELSE [i \in 1..(e - a) |-> s[a + i]]

\* s[::step]; the caller rules out step = 0 (ValueError)
StepSlice(s, step) ==
    LET n == Len(s)
        k == IF step > 0 THEN step ELSE 0 - step
        cnt == IF n = 0 THEN 0 ELSE ((n - 1) \div k) + 1
    IN  IF step > 0
        THEN [i \in 1..cnt |-> s[1 + (i - 1) * k]]
        ELSE [i \in 1..cnt |-> s[n - (i - 1) * k]]

RECURSIVE Concat(_)
Concat(ss) == IF ss = <<>> THEN <<>> ELSE Head(ss) \o Concat(Tail(ss))

\* ------------------------------------------------- utils_parallel_loader
\* overlap_grouper(iterable, n, prefix): one chunk of n consecutive elements
\* per start offset, stride 1, each element paired with the prefix.
overlap_grouper(iterable, n, prefix) ==
    IF Len(iterable) < n THEN <<>>
    ELSE [i \in 1..(Len(iterable) - n + 1) |->
            [j \in 1..n |-> <<prefix, iterable[i + j - 1]>>]]

\* grouper(iterable, n): consecutive chunks of n elements, the last one
\* filled up with None.
grouper(iterable, n) ==
    LET cnt == (Len(iterable) + n - 1) \div n
    IN  [g \in 1..cnt |->
            [j \in 1..n |->
                IF (g - 1) * n + j <= Len(iterable)
                THEN iterable[(g - 1) * n + j] ELSE None]]


\* ------------------------------------------------------------------ state
VARIABLES
    args,               \* the constructor's arguments
    names_per_subset,   \* what get_names() returns: subset key -> names
    status,             \* "new", "ready", or the error __init__ raised
    seq_length,         \* self.seq_length
    overlap,            \* self.overlap
    names_sequences,    \* self.names_sequences: subset key -> windows
    names_batches,      \* self.names_batches: what the iterator still holds
    nsamples,           \* self.nsamples
    nbatches,           \* self.nbatches
    rng,                \* state of self.rng, the seeded generator
    names_queue,        \* self.names_queue: items waiting
    names_unfinished,   \* self.names_queue.unfinished_tasks
    names_mutex,        \* self.names_queue.mutex is held by the main thread
    data_queue,         \* self.data_queue: items waiting
    data_unfinished,    \* self.data_queue.unfinished_tasks
    wpc,                \* position of each fetcher thread in threaded_fetch
    wbatch,             \* batch_to_load of each fetcher thread
    cpc,                \* position of the main thread
    data_batch,         \* _step's local data_batch
    loopi,              \* iterations left in _init_names_queue / finish loops
    outcome,            \* how the last call of the main thread ended
    errors,             \* history: number of fetches that raised
    history,            \* history: "steps" while only step() was called,
                        \* "finish1" from the first finish() after that
    ref,                \* history: the synchronous loader run alongside
    same,               \* history: every Batch returned equals ref's Batch
    epochCount,         \* history: Batches returned since the last EndOfEpoch
    class_attrs,        \* the class attributes non_void_nclasses,
                        \* _void_labels and GTclasses (when the class has it)
    mapping,            \* what the last call of _get_mapping() returned
    seq_y,              \* fetch_from_dataset's seq_y: the labels of a sample
    seq_y0              \* history: seq_y as load_sequence returned it

vars == <<args, names_per_subset, status, seq_length, overlap, names_sequences,
          names_batches, nsamples, nbatches, rng, names_queue,
          names_unfinished, names_mutex, data_queue, data_unfinished, wpc,
          wbatch, cpc, data_batch, loopi, outcome, errors, history, ref,
          same, epochCount, class_attrs, mapping, seq_y, seq_y0>>

\* only _get_mapping and the remapping of the labels in fetch_from_dataset
\* read or write the label attributes
labelVars == <<class_attrs, mapping, seq_y, seq_y0>>
confVars == <<args, names_per_subset, labelVars>>
winVars == <<seq_length, overlap, names_sequences>>
schedVars == <<names_batches, nsamples, nbatches, rng>>
namesQVars == <<names_queue, names_unfinished, names_mutex>>
dataQVars == <<data_queue, data_unfinished>>
workerVars == <<wpc, wbatch>>
histVars == <<errors, history, ref, same, epochCount>>

Threads == 1..(IF MaxThreads > LiteThreads THEN MaxThreads ELSE LiteThreads)
data_fetchers == IF args.use_threads THEN 1..args.nthreads ELSE {}

GroupItem(g) == [tag |-> "group", wins |-> g]
SentinelItem == [tag |-> Sentinel, wins |-> <<>>]
Result(kind, g) == [kind |-> kind, group |-> g]
NoBatch == Result("none", <<>>)
\* how a call ended, and the kind of the item it handed out or raised
Outcome(call, kind, b) == [call |-> call, kind |-> kind, item |-> b.kind]

\* ------------------------------------------------------ SequenceWindower
extended_namesFrontOnly(names, sl) == Repeat(names[1], sl \div 2) \o names

\* extended_names: the first and the last name repeated seq_length // 2 times
extended_names(names, sl) ==
    Repeat(names[1], sl \div 2) \o names \o Repeat(names[Len(names)], sl \div 2)

\* the stride-1 sequences of one subset
stride_sequences(prefix, names, sl) ==
    overlap_grouper(extended_names(names, sl), sl, prefix)

SubsetSequencesWrongPrefix(prefix, names, sl, ov) ==
    StepSlice(stride_sequences(KeyOrder[1], names, sl), sl - ov)

SubsetSequencesStrideOff(prefix, names, sl, ov) ==
    StepSlice(stride_sequences(prefix, names, sl), sl - ov + 1)

\* one iteration of the loop of _fill_names_sequences
SubsetSequences(prefix, names, sl, ov) ==
    StepSlice(stride_sequences(prefix, names, sl), sl - ov)

\* the keys of a dict in the order items() yields them
RECURSIVE KeysFrom(_, _)
KeysFrom(i, dom) ==
    IF i > Len(KeyOrder) THEN <<>>
    ELSE (IF KeyOrder[i] \in dom THEN <<KeyOrder[i]>> ELSE <<>>)
         \o KeysFrom(i + 1, dom)

Items(d) == KeysFrom(1, DOMAIN d)

\* what _fill_names_sequences raises: names[0] of an empty list is an
\* IndexError, a slice step of zero a ValueError; the first subset decides
FillSequencesError(nps, sl, ov) ==
    LET ks == Items(nps)
    IN  IF ks = <<>> THEN "ok"
        ELSE IF nps[ks[1]] = <<>> THEN "IndexError"
        ELSE IF sl - ov = 0 THEN "ValueError"
        ELSE IF \E k \in DOMAIN nps : nps[k] = <<>> THEN "IndexError"
        ELSE "ok"

FillNamesSequences(nps, sl, ov) ==
    [k \in DOMAIN nps |-> SubsetSequences(k, nps[k], sl, ov)]

\* --------------------------------------------------------- BatchScheduler
\* the orders np.random.permutation(range(n))[:m] can produce
PermPrefixes(n, m) ==
    {p \in [1..Min(m, n) -> 1..n] :
        \A i, j \in 1..Min(m, n) : i # j => p[i] # p[j]}

\* the sequences of one subset _fill_names_batches may select
Picks(sequences, spv) ==
    IF spv = 0 THEN {sequences}
    ELSE {[i \in 1..Len(p) |-> sequences[p[i]]] :
            p \in PermPrefixes(Len(sequences), spv)}

RECURSIVE FlatFrom(_, _, _)
FlatFrom(ks, nseq, spv) ==
    IF ks = <<>> THEN {<<>>}
    ELSE {p \o r : p \in Picks(nseq[Head(ks)], spv),
                   r \in FlatFrom(Tail(ks), nseq, spv)}

\* the flat lists names_sequences can hold before the shuffle
FlatChoices(nseq, spv) == FlatFrom(Items(nseq), nseq, spv)

\* self.rng.shuffle: a permutation fixed by the generator's state
Shuffle(s, r) ==
    IF Len(s) <= 1 THEN s
    ELSE LET k == (r % Len(s)) + 1
         IN  [i \in 1..Len(s) |-> s[((i + k - 1) % Len(s)) + 1]]

NextRng(r) == (r + 1) % RngPeriod

\* the flat list when seq_per_video = 0
Flat0(nseq) == Concat([i \in 1..Len(Items(nseq)) |-> nseq[Items(nseq)[i]]])

\* the list of batches built from the flat list
BuildBatches(flat, shuffle, r, bs) ==
    grouper(IF shuffle THEN Shuffle(flat, r) ELSE flat, bs)

FillNamesBatchesAlwaysShuffles(nseq, shuffle, r) ==
    {[names_batches |-> BuildBatches(flat, TRUE, r, args.batch_size),
      nsamples |-> Len(flat),
      nbatches |-> Len(BuildBatches(flat, TRUE, r, args.batch_size)),
      rng |-> NextRng(r)] :
        flat \in FlatChoices(nseq, args.seq_per_video)}

FillNamesBatchesCountAll(nseq, shuffle, r) ==
    {[names_batches |-> BuildBatches(flat, shuffle, r, args.batch_size),
      nsamples |-> Len(Flat0(nseq)),
      nbatches |-> Len(BuildBatches(flat, shuffle, r, args.batch_size)),
      rng |-> IF shuffle THEN NextRng(r) ELSE r] :
        flat \in FlatChoices(nseq, args.seq_per_video)}

\* _fill_names_batches(shuffle) on names_sequences nseq with the generator
\* in state r: what it may leave in names_batches, nsamples, nbatches, rng
FillNamesBatches(nseq, shuffle, r) ==
    {[names_batches |-> BuildBatches(flat, shuffle, r, args.batch_size),
      nsamples |-> Len(flat),
      nbatches |-> Len(BuildBatches(flat, shuffle, r, args.batch_size)),
      rng |-> IF shuffle THEN NextRng(r) ELSE r] :
        flat \in FlatChoices(nseq, args.seq_per_video)}

SetSched(fr) ==
    /\ names_batches' = fr.names_batches
    /\ nsamples' = fr.nsamples
    /\ nbatches' = fr.nbatches
    /\ rng' = fr.rng

\* ------------------------------------------------------------- histories
RefNone == [batches |-> <<>>, rng |-> 0]

\* the next Batch of the synchronous loader (seq_per_video = 0, no errors):
\* the next batch of the iterator, after a refill at the end of the epoch
RefStep(rf) ==
    IF rf.batches # <<>>
    THEN [out |-> Head(rf.batches),
          next |-> [batches |-> Tail(rf.batches), rng |-> rf.rng]]
    ELSE LET nb == BuildBatches(Flat0(names_sequences),
                                args.shuffle_at_each_epoch, rf.rng,
                                args.batch_size)
         IN  [out |-> Head(nb),
              next |-> [batches |-> Tail(nb),
                        rng |-> IF args.shuffle_at_each_epoch
                                THEN NextRng(rf.rng) ELSE rf.rng]]

Tracking == history = "steps" /\ errors = 0

\* a Batch is handed to the caller of step()
ReturnBatch(b) ==
    /\ cpc' = "idle"
    /\ outcome' = Outcome("step", "Batch", b)
    /\ epochCount' = IF args.infinite_iterator THEN 0
                     ELSE Min(epochCount + 1, EngNames + 1)
    /\ IF Tracking
       THEN /\ same' = (same /\ RefStep(ref).out = b.group)
            /\ ref' = RefStep(ref).next
       ELSE UNCHANGED <<same, ref>>
    /\ UNCHANGED <<errors, history>>

\* a fetch raised
NoteError(kind) ==
    /\ kind # "ok" => errors < MaxErrors
    /\ errors' = IF kind # "ok" THEN errors + 1 ELSE errors
    /\ ref' = IF kind # "ok" THEN RefNone ELSE ref
    /\ UNCHANGED <<history, same, epochCount>>

\* a call other than step() starts
NoteOtherCall(call) ==
    /\ history' = IF call = "finish" /\ history = "steps"
                  THEN "finish1" ELSE "other"
    /\ ref' = RefNone
    /\ UNCHANGED <<errors, same, epochCount>>

\* ------------------------------------------------------------- __init__
OverlapGiven(a) == a.overlap # None
OverlapArg(a) == a.overlap[1]

\* the first min(q, len) batches go to the names queue (_init_names_queue
\* before any fetcher is started)
InitFill(batches, q) ==
    [queue |-> [i \in 1..Min(q, Len(batches)) |-> GroupItem(batches[i])],
     rest |-> PySlice(batches, Min(q, Len(batches)), Len(batches))]

ThreadCheckShuffleOnly(a) ==
    a.use_threads /\ a.nthreads > 1 /\ a.shuffle_at_each_epoch

\* line 157: multiple threads without shuffling are refused
ThreadCheck(a) ==
    a.use_threads /\ a.nthreads > 1 /\ ~a.shuffle_at_each_epoch

OverlapCheckStrict(a) ==
    a.seq_length # 0 /\ OverlapGiven(a) /\ OverlapArg(a) # 0
        /\ OverlapArg(a) > a.seq_length

\* line 179
OverlapCheck(a) ==
    a.seq_length # 0 /\ OverlapGiven(a) /\ OverlapArg(a) # 0
        /\ OverlapArg(a) >= a.seq_length

Fail(err) ==
    /\ status' = err
    /\ UNCHANGED <<schedVars, namesQVars, dataQVars, workerVars, cpc,
                   data_batch, loopi, outcome, histVars>>

Construct ==
    /\ status = "new"
    /\ UNCHANGED confVars
    /\ IF ThreadCheck(args)
       THEN Fail("NotImplementedError") /\ UNCHANGED winVars
       ELSE IF OverlapCheck(args)
       THEN Fail("ValueError") /\ UNCHANGED winVars
       ELSE
        LET sl == IF args.seq_length # 0 THEN args.seq_length ELSE 1
            ov == IF OverlapGiven(args) THEN OverlapArg(args) ELSE sl - 1
            err == FillSequencesError(names_per_subset, sl, ov)
        IN
        /\ seq_length' = sl
        /\ overlap' = ov
        /\ IF err # "ok"
           THEN Fail(err) /\ UNCHANGED names_sequences
           ELSE
            /\ names_sequences' = FillNamesSequences(names_per_subset, sl, ov)
            /\ IF Items(names_sequences') = <<>>
               THEN Fail("RuntimeError")
               ELSE \E fr \in FillNamesBatches(names_sequences',
                                    args.shuffle_at_each_epoch, rng) :
                    /\ status' = "ready"
                    /\ nsamples' = fr.nsamples
                    /\ nbatches' = fr.nbatches
                    /\ rng' = fr.rng
                    /\ ref' = [batches |-> fr.names_batches, rng |-> fr.rng]
                    /\ cpc' = "idle"
                    /\ UNCHANGED <<data_batch, loopi, outcome, errors,
                                   history, same, epochCount, names_mutex,
                                   dataQVars, wbatch>>
                    /\ IF args.use_threads
                       THEN LET f == InitFill(fr.names_batches,
                                              args.queues_size)
                            IN  /\ names_batches' = f.rest
                                /\ names_queue' = f.queue
                                /\ names_unfinished' = Len(f.queue)
                                /\ wpc' = [w \in Threads |->
                                            IF w <= args.nthreads
                                            THEN "get" ELSE "none"]
                       ELSE /\ names_batches' = fr.names_batches
                            /\ UNCHANGED <<names_queue, names_unfinished,
                                           wpc>>


\* ------------------------------------------------------------ Queue.Queue
NamesRoom == Len(names_queue) < args.queues_size
DataRoom == Len(data_queue) < args.queues_size

\* names_queue.put(item): blocks while the queue is full
NamesPut(item) ==
    /\ NamesRoom
    /\ ~names_mutex
    /\ names_queue' = Append(names_queue, item)
    /\ names_unfinished' = names_unfinished + 1
    /\ UNCHANGED names_mutex

\* data_queue.put(item): blocks while the queue is full
DataPut(item) ==
    /\ DataRoom
    /\ data_queue' = Append(data_queue, item)
    /\ data_unfinished' = data_unfinished + 1

AnyAlive == \E df \in data_fetchers : wpc[df] # "dead"

\* --------------------------------------------------------- threaded_fetch
FetchKinds == {"ok", "io", "exc", "base"}

mainVars == <<cpc, data_batch, loopi, outcome>>

\* batch_to_load = names_queue.get(): blocks while the queue is empty
W_Get(w) ==
    /\ wpc[w] = "get"
    /\ names_queue # <<>>
    /\ ~names_mutex
    /\ names_queue' = Tail(names_queue)
    /\ IF Head(names_queue).tag = Sentinel
       THEN /\ wpc' = [wpc EXCEPT ![w] = "sentinel"]
            /\ UNCHANGED wbatch
       ELSE /\ wpc' = [wpc EXCEPT ![w] = "fetch"]
            /\ wbatch' = [wbatch EXCEPT ![w] = Head(names_queue).wins]
    /\ UNCHANGED <<confVars, status, winVars, schedVars, names_unfinished,
                   names_mutex, dataQVars, mainVars, histVars>>

AfterDoneRefetch(pc) == IF pc = "sentinel" THEN "dead" ELSE "fetch"

\* where the fetcher goes after names_queue.task_done() at pc: the sentinel
\* branch breaks out of the loop, the other two go back to names_queue.get()
AfterDone(pc) == IF pc = "sentinel" THEN "dead" ELSE "get"

\* names_queue.task_done() after the sentinel (line 698), after the put of a
\* minibatch (line 708) or in the except clause (line 712). It raises a
\* ValueError when nothing is unfinished: inside the try the bare except
\* catches it, inside the except clause it ends the thread.
W_TaskDone(w) ==
    /\ wpc[w] \in {"sentinel", "task_done", "exc_done"}
    /\ ~names_mutex
    /\ IF names_unfinished = 0
       THEN /\ wpc' = [wpc EXCEPT ![w] =
                        IF wpc[w] = "exc_done" THEN "dead" ELSE "raised"]
            /\ UNCHANGED names_unfinished
       ELSE /\ names_unfinished' = names_unfinished - 1
            /\ wpc' = [wpc EXCEPT ![w] = AfterDone(wpc[w])]
    /\ wbatch' = [wbatch EXCEPT ![w] = <<>>]
    /\ UNCHANGED <<confVars, status, winVars, schedVars, names_queue,
                   names_mutex, dataQVars, mainVars, histVars>>

AfterPutNoAck(kind) == IF kind = "ok" THEN "task_done" ELSE "get"

\* where the fetcher goes after its data_queue.put: a minibatch is
\* acknowledged at line 708, the exc_info of the except clause at line 712
AfterPut(kind) == IF kind = "ok" THEN "task_done" ELSE "exc_done"

\* fetch_from_dataset(batch_to_load), then data_queue.put of the minibatch,
\* or of sys.exc_info() from the except clause
W_FetchPut(w) ==
    /\ wpc[w] \in {"fetch", "raised"}
    /\ \E kind \in FetchKinds :
        /\ wpc[w] = "raised" => kind = "exc"
        /\ DataPut(Result(kind, wbatch[w]))
        /\ wpc' = [wpc EXCEPT ![w] = AfterPut(kind)]
        /\ wbatch' = [wbatch EXCEPT ![w] =
                        IF kind = "ok" THEN wbatch[w] ELSE <<>>]
        /\ IF wpc[w] = "raised" THEN UNCHANGED histVars ELSE NoteError(kind)
    /\ UNCHANGED <<confVars, status, winVars, schedVars, namesQVars,
                   mainVars>>

Worker(w) == W_Get(w) \/ W_TaskDone(w) \/ W_FetchPut(w)


\* ------------------------------------------------------------------ _step
mainFrame == <<confVars, status, winVars, wpc, wbatch>>

\* the caller calls next(): _step starts with no data_batch of its own
CallStep ==
    /\ status = "ready"
    /\ cpc = "idle"
    /\ cpc' = "step_loop"
    /\ data_batch' = NoBatch
    /\ UNCHANGED <<mainFrame, schedVars, namesQVars, dataQVars, loopi,
                   outcome, histVars>>

NoFetcherAliveInverted == \A df \in data_fetchers : wpc[df] # "dead"

\* all([not df.isAlive() for df in self.data_fetchers])
NoFetcherAlive == \A df \in data_fetchers : wpc[df] = "dead"

\* top of the loop with threads: sys.exit(0) when every fetcher died
StepAliveCheck ==
    /\ cpc = "step_loop"
    /\ args.use_threads
    /\ IF NoFetcherAlive
       THEN /\ cpc' = "exited"
            /\ outcome' = Outcome("step", "SystemExit", NoBatch)
       ELSE /\ cpc' = "step_get"
            /\ UNCHANGED outcome
    /\ UNCHANGED <<mainFrame, schedVars, namesQVars, dataQVars, data_batch,
                   loopi, histVars>>

\* what _step does with a popped item: "continue", "raise" or "done"
Classify(item) ==
    IF item.kind = "io" THEN "continue"
    ELSE IF item.kind = "exc" THEN "raise"
    ELSE "done"

\* data_queue.get(False), task_done, and the exception handling
StepGet ==
    /\ cpc = "step_get"
    /\ IF data_queue = <<>>
       THEN /\ cpc' = "step_empty"
            /\ UNCHANGED <<dataQVars, data_batch, outcome>>
       ELSE /\ data_queue' = Tail(data_queue)
            /\ data_unfinished' = data_unfinished - 1
            /\ data_batch' = IF Classify(Head(data_queue)) = "raise"
                             THEN NoBatch ELSE Head(data_queue)
            /\ cpc' = CASE Classify(Head(data_queue)) = "continue"
                            -> "step_loop"
                        [] Classify(Head(data_queue)) = "raise" -> "idle"
                        [] OTHER -> "step_refill"
            /\ outcome' = IF Classify(Head(data_queue)) = "raise"
                          THEN Outcome("step", "raised", Head(data_queue))
                          ELSE outcome
    /\ UNCHANGED <<mainFrame, schedVars, namesQVars, loopi, histVars>>

\* done = True; refill the names queue if batches are left; return
StepRefill ==
    /\ cpc = "step_refill"
    /\ IF names_batches = <<>>
       THEN UNCHANGED <<names_batches, namesQVars>>
       ELSE /\ NamesPut(GroupItem(Head(names_batches)))
            /\ names_batches' = Tail(names_batches)
    /\ ReturnBatch(data_batch)
    /\ data_batch' = NoBatch
    /\ UNCHANGED <<mainFrame, nsamples, nbatches, rng, dataQVars, loopi>>

\* except Queue.Empty: is anything unfinished in the names queue?
EpochOver == names_unfinished = 0

StepEmpty ==
    /\ cpc = "step_empty"
    /\ cpc' = IF EpochOver THEN "step_rebuild" ELSE "step_loop"
    /\ UNCHANGED <<mainFrame, schedVars, namesQVars, dataQVars, data_batch,
                   loopi, outcome, histVars>>

\* END OF EPOCH: _fill_names_batches(self.shuffle_at_each_epoch)
StepRebuild ==
    /\ cpc = "step_rebuild"
    /\ \E fr \in FillNamesBatches(names_sequences,
                                  args.shuffle_at_each_epoch, rng) :
        SetSched(fr)
    /\ loopi' = args.queues_size
    /\ cpc' = "step_init"
    /\ UNCHANGED <<mainFrame, namesQVars, dataQVars, data_batch, outcome,
                   histVars>>

\* one iteration of _init_names_queue, then StopIteration or the next turn
StepInit ==
    /\ cpc = "step_init"
    /\ IF loopi > 0 /\ names_batches # <<>>
       THEN /\ NamesPut(GroupItem(Head(names_batches)))
            /\ names_batches' = Tail(names_batches)
            /\ loopi' = loopi - 1
            /\ UNCHANGED <<cpc, outcome, epochCount>>
       ELSE /\ loopi' = 0
            /\ IF args.infinite_iterator
               THEN /\ cpc' = "step_loop"
                    /\ UNCHANGED <<outcome, epochCount>>
               ELSE /\ cpc' = "idle"
                    /\ outcome' = Outcome("step", "EndOfEpoch", NoBatch)
                    /\ epochCount' = 0
            /\ UNCHANGED <<names_batches, namesQVars>>
    /\ UNCHANGED <<mainFrame, nsamples, nbatches, rng, dataQVars,
                   data_batch, errors, history, ref, same>>

SyncRebuildShuffleAlways == TRUE

\* line 409: the flag the end of an epoch passes to _fill_names_batches
SyncRebuildShuffle == args.shuffle_at_each_epoch

\* one turn of the loop without threads
StepSync ==
    /\ cpc = "step_loop"
    /\ ~args.use_threads
    /\ IF names_batches = <<>>
       THEN /\ \E fr \in FillNamesBatches(names_sequences,
                                  SyncRebuildShuffle, rng) :
                SetSched(fr)
            /\ IF args.infinite_iterator
               THEN UNCHANGED <<cpc, outcome, epochCount>>
               ELSE /\ cpc' = "idle"
                    /\ outcome' = Outcome("step", "EndOfEpoch", NoBatch)
                    /\ epochCount' = 0
            /\ UNCHANGED <<data_batch, errors, history, ref, same>>
       ELSE /\ names_batches' = Tail(names_batches)
            /\ UNCHANGED <<nsamples, nbatches, rng>>
            /\ \E kind \in FetchKinds :
                CASE kind = "ok" ->
                        /\ data_batch' = Result("ok", Head(names_batches))
                        /\ cpc' = "step_return"
                        /\ UNCHANGED <<outcome, histVars>>
                  [] kind = "io" ->
                        /\ NoteError(kind)
                        /\ UNCHANGED <<cpc, outcome, data_batch>>
                  [] OTHER ->
                        /\ NoteError(kind)
                        /\ cpc' = "idle"
                        /\ outcome' = Outcome("step", "raised",
                                         Result(kind, Head(names_batches)))
                        /\ UNCHANGED data_batch
    /\ UNCHANGED <<mainFrame, namesQVars, dataQVars, loopi>>

\* without threads: assert(data_batch is not None); return data_batch
StepSyncReturn ==
    /\ cpc = "step_return"
    /\ ReturnBatch(data_batch)
    /\ data_batch' = NoBatch
    /\ UNCHANGED <<mainFrame, schedVars, namesQVars, dataQVars, loopi>>


\* ----------------------------------------------------------------- finish
\* the caller calls finish(); without threads self.data_fetchers is missing
CallFinish ==
    /\ status = "ready"
    /\ cpc = "idle"
    /\ IF args.use_threads
       THEN /\ cpc' = "finish_put"
            /\ loopi' = args.nthreads
            /\ UNCHANGED outcome
       ELSE /\ outcome' = Outcome("finish", "raised", NoBatch)
            /\ UNCHANGED <<cpc, loopi>>
    /\ NoteOtherCall("finish")
    /\ UNCHANGED <<mainFrame, schedVars, namesQVars, dataQVars, data_batch>>

\* for _ in self.data_fetchers: self.names_queue.put(self.sentinel)
FinishPut ==
    /\ cpc = "finish_put"
    /\ NamesPut(SentinelItem)
    /\ loopi' = loopi - 1
    /\ cpc' = IF loopi = 1 THEN "finish_wait" ELSE "finish_put"
    /\ UNCHANGED <<mainFrame, schedVars, dataQVars, data_batch, outcome,
                   histVars>>

\* while any([df.isAlive() ...]): sleep; then join every fetcher and return
FinishWait ==
    /\ cpc = "finish_wait"
    /\ ~AnyAlive
    /\ cpc' = "idle"
    /\ outcome' = Outcome("finish", "returned", NoBatch)
    /\ UNCHANGED <<mainFrame, schedVars, namesQVars, dataQVars, data_batch,
                   loopi, histVars>>

\* ---------------------------------------------------------------- shuffle
CallShuffle ==
    /\ status = "ready"
    /\ cpc = "idle"
    /\ \E fr \in FillNamesBatches(names_sequences, TRUE, rng) : SetSched(fr)
    /\ outcome' = Outcome("shuffle", "returned", NoBatch)
    /\ NoteOtherCall("shuffle")
    /\ UNCHANGED <<mainFrame, namesQVars, dataQVars, cpc, data_batch, loopi>>

\* ------------------------------------------------------------------ reset
\* reset(shuffle, reload_sequences_from_dataset) up to the queues: the
\* sequences are filled again, the batches rebuilt; without threads it returns
CallReset ==
    /\ status = "ready"
    /\ cpc = "idle"
    /\ \E shuffle \in BOOLEAN, reload \in BOOLEAN :
        /\ names_sequences' =
              IF reload
              THEN FillNamesSequences(names_per_subset, seq_length, overlap)
              ELSE names_sequences
        /\ \E fr \in FillNamesBatches(names_sequences', shuffle, rng) :
              SetSched(fr)
    /\ IF args.use_threads
       THEN /\ cpc' = "reset_lock"
            /\ UNCHANGED outcome
       ELSE /\ outcome' = Outcome("reset", "returned", NoBatch)
            /\ UNCHANGED cpc
    /\ NoteOtherCall("reset")
    /\ UNCHANGED <<confVars, status, seq_length, overlap, workerVars,
                   namesQVars, dataQVars, data_batch, loopi>>

\* with self.names_queue.mutex: the main thread takes the queue's lock.
\* The loop body then calls names_queue.get(False), which first acquires
\* that same non-reentrant lock: the main thread stays at "reset_drain",
\* and lines 575-587 are never reached with threads.
ResetLock ==
    /\ cpc = "reset_lock"
    /\ ~names_mutex
    /\ names_mutex' = TRUE
    /\ cpc' = "reset_drain"
    /\ UNCHANGED <<mainFrame, schedVars, names_queue, names_unfinished,
                   dataQVars, data_batch, loopi, outcome, histVars>>

\* ----------------------------------------------------------- _get_mapping
SetOf(s) == {s[i] : i \in 1..Len(s)}

\* list.sort() on a list of distinct labels
RECURSIVE SortSet(_)
SortSet(S) ==
    IF S = {} THEN <<>>
    ELSE LET m == CHOOSE x \in S : \A y \in S : x <= y
         IN  <<m>> \o SortSet(S \ {m})

\* the orders in which iterating set(GTclasses) - set(_void_labels) may
\* yield its elements: the language leaves the order of a set open
SetOrders(S) ==
    {p \in [1..Cardinality(S) -> S] :
        \A i, j \in 1..Cardinality(S) : i # j => p[i] # p[j]}

\* lines 634-637: enumerate the set, then every void label -> non_void_nclasses
ExplicitMapping(order, nvn, void) ==
    [cl \in SetOf(order) \cup SetOf(void) |->
        IF cl \in SetOf(void) THEN nvn
        ELSE (CHOOSE i \in 1..Len(order) : order[i] = cl) - 1]

ImplicitMappingNoDelta(nvn, void) ==
    [i \in 0..(nvn + Len(void) - 1) |->
        IF i \in SetOf(void) THEN nvn ELSE i]

\* lines 639-647: delta counts the void labels met so far
ImplicitMapping(nvn, void) ==
    [i \in 0..(nvn + Len(void) - 1) |->
        IF i \in SetOf(void) THEN nvn
        ELSE i - Cardinality({j \in 0..(i - 1) : j \in SetOf(void)})]

\* the mappings _get_mapping() may return for the class attributes a
GetMappingResults(a) ==
    IF a.has_GTclasses
    THEN {ExplicitMapping(o, a.non_void_nclasses, a.void_labels) :
            o \in SetOrders(SetOf(a.GTclasses) \ SetOf(a.void_labels))}
    ELSE {ImplicitMapping(a.non_void_nclasses, a.void_labels)}

\* cls._get_mapping(): GTclasses is sorted in place, the mapping returned
CallGetMapping ==
    /\ \E m \in GetMappingResults(class_attrs) :
            mapping' = [built |-> TRUE, map |-> m]
    /\ class_attrs' =
          IF class_attrs.has_GTclasses
          THEN [class_attrs EXCEPT !.GTclasses = SortSet(SetOf(@))]
          ELSE class_attrs
    /\ UNCHANGED <<args, names_per_subset, status, winVars, schedVars,
                   namesQVars, dataQVars, workerVars, mainVars, histVars,
                   seq_y, seq_y0>>

\* ------------------------------------ fetch_from_dataset: label remapping
\* void_l.sort(reverse=True)
RECURSIVE SortDesc(_)
SortDesc(s) ==
    IF s = <<>> THEN <<>>
    ELSE LET i == CHOOSE i \in 1..Len(s) : \A j \in 1..Len(s) : s[j] <= s[i]
         IN  <<s[i]>> \o SortDesc(SubSeq(s, 1, i - 1)
                                    \o SubSeq(s, i + 1, Len(s)))

\* seq_y[seq_y == a] = b
Rewrite(y, a, b) == [i \in DOMAIN y |-> IF y[i] = a THEN b ELSE y[i]]

\* lines 489-492: for i in sorted(mapping.keys()), skipping
\* non_void_nclasses, rewrite in place the entries equal to i
RECURSIVE RewriteKeys(_, _, _, _)
RewriteKeys(y, keys, m, nvn) ==
    IF keys = <<>> THEN y
    ELSE RewriteKeys(IF Head(keys) = nvn THEN y
                     ELSE Rewrite(y, Head(keys), m[Head(keys)]),
                     Tail(keys), m, nvn)

\* lines 488-496: park non_void_nclasses at -1, rewrite key by key, then
\* rewrite -1 (KeyError: left alone)
ApplyMapping(y, m, nvn) ==
    LET parked == Rewrite(y, nvn, 0 - 1)
        done == RewriteKeys(parked, SortSet(DOMAIN m), m, nvn)
    IN  IF nvn \in DOMAIN m THEN Rewrite(done, 0 - 1, m[nvn]) ELSE done

\* the label arrays load_sequence may return: labels the mapping is about
\* and labels outside of it
LabelArrays(a) ==
    UNION {[1..n -> (0..MaxLabel) \cup SetOf(a.GTclasses)] : n \in 1..MaxPix}

\* lines 477-496 of fetch_from_dataset for one sample with labels: when the
\* class has void labels they are sorted in place, _get_mapping() is called
\* and the mapping applied to seq_y
RemapLabels ==
    /\ seq_y # <<>>
    /\ ~mapping.built
    /\ IF class_attrs.void_labels = <<>>
       THEN UNCHANGED <<class_attrs, mapping, seq_y>>
       ELSE \E m \in GetMappingResults(class_attrs) :
            /\ mapping' = [built |-> TRUE, map |-> m]
            /\ seq_y' = ApplyMapping(seq_y, m, class_attrs.non_void_nclasses)
            /\ class_attrs' =
                  [class_attrs EXCEPT
                      !.void_labels = SortDesc(@),
                      !.GTclasses = IF class_attrs.has_GTclasses
                                    THEN SortSet(SetOf(@)) ELSE @]
    /\ UNCHANGED seq_y0
    /\ UNCHANGED <<args, names_per_subset, status, winVars, schedVars,
                   namesQVars, dataQVars, workerVars, mainVars, histVars>>

\* ------------------------------------------------------- specifications
EngineArgs ==
    [seq_per_video : {0}, seq_length : {0}, overlap : {None},
     batch_size : 1..MaxBatch, queues_size : 1..MaxQueue,
     use_threads : BOOLEAN, nthreads : 1..MaxThreads,
     shuffle_at_each_epoch : BOOLEAN, infinite_iterator : BOOLEAN]

EngineNames == {[k \in {"A"} |-> [i \in 1..EngNames |-> i]]}

\* a dataset class without void labels and without GTclasses
PlainAttrs ==
    [non_void_nclasses |-> 1, void_labels |-> <<>>, has_GTclasses |-> FALSE,
     GTclasses |-> <<>>]

NoMapping == [built |-> FALSE, map |-> <<>>]

\* the loader before __init__ ran, for a class with attributes from L
InitBase(A, N, L) ==
    /\ class_attrs \in L
    /\ mapping = NoMapping
    /\ args \in A
    /\ names_per_subset \in N
    /\ status = "new"
    /\ seq_length = 0
    /\ overlap = 0
    /\ names_sequences = <<>>
    /\ names_batches = <<>>
    /\ nsamples = 0
    /\ nbatches = 0
    /\ rng = 0
    /\ names_queue = <<>>
    /\ names_unfinished = 0
    /\ names_mutex = FALSE
    /\ data_queue = <<>>
    /\ data_unfinished = 0
    /\ wpc = [w \in Threads |-> "none"]
    /\ wbatch = [w \in Threads |-> <<>>]
    /\ cpc = "new"
    /\ data_batch = NoBatch
    /\ loopi = 0
    /\ outcome = Outcome("none", "none", NoBatch)
    /\ errors = 0
    /\ history = "steps"
    /\ ref = RefNone
    /\ same = TRUE
    /\ epochCount = 0

\* no sample loaded yet
InitLabelled(A, N, L) ==
    /\ InitBase(A, N, L)
    /\ seq_y = <<>>
    /\ seq_y0 = <<>>

InitWith(A, N) == InitLabelled(A, N, {PlainAttrs})

Init == InitWith(EngineArgs, EngineNames)

Main ==
    \/ Construct
    \/ CallStep \/ StepAliveCheck \/ StepGet \/ StepRefill \/ StepEmpty
    \/ StepRebuild \/ StepInit \/ StepSync \/ StepSyncReturn
    \/ CallFinish \/ FinishPut \/ FinishWait
    \/ CallReset \/ ResetLock

Next == Main \/ \E w \in Threads : Worker(w)

Spec == Init /\ [][Next]_vars


\* the steps the main thread takes inside a call it has started
MainStep ==
    \/ StepAliveCheck \/ StepGet \/ StepRefill \/ StepEmpty \/ StepRebuild
    \/ StepInit \/ StepSync \/ StepSyncReturn \/ FinishPut \/ FinishWait
    \/ ResetLock

\* every thread that can run is eventually scheduled
FairSpec ==
    /\ Spec
    /\ WF_vars(MainStep)
    /\ \A w \in Threads : WF_vars(Worker(w))

\* the same loader on smaller arguments: one window per batch
LiteArgs ==
    [seq_per_video : {0}, seq_length : {0}, overlap : {None},
     batch_size : {1}, queues_size : 1..LiteQueue,
     use_threads : BOOLEAN, nthreads : 1..LiteThreads,
     shuffle_at_each_epoch : BOOLEAN, infinite_iterator : BOOLEAN]

LiteNameSets == {[k \in {"A"} |-> [i \in 1..LiteNames |-> i]]}

InitLite == InitWith(LiteArgs, LiteNameSets)

SpecLite == InitLite /\ [][Next]_vars

FairLite ==
    /\ SpecLite
    /\ WF_vars(MainStep)
    /\ \A w \in Threads : WF_vars(Worker(w))

\* the windower and the scheduler on their own: construction, reset and
\* shuffle without threads
OverlapArgs == {None} \cup {<<v>> : v \in (0 - MaxSkip)..MaxSeqLen}

WinArgs ==
    [seq_per_video : {0}, seq_length : 0..MaxSeqLen, overlap : OverlapArgs,
     batch_size : {1}, queues_size : {1}, use_threads : {FALSE},
     nthreads : {1}, shuffle_at_each_epoch : {FALSE},
     infinite_iterator : {FALSE}]

NameLists == {[i \in 1..n |-> i] : n \in 0..MaxNames}
WinNames == UNION {[ks -> NameLists] : ks \in SUBSET Keys}

InitWin == InitWith(WinArgs, WinNames)

NextWin == Construct \/ CallReset \/ CallShuffle

SpecWin == InitWin /\ [][NextWin]_vars

\* the scheduler without threads: construction, step and reset on one or two
\* subsets, with and without a cap on the sequences per subset
SchedArgs ==
    [seq_per_video : 0..MaxSpv, seq_length : {0}, overlap : {None},
     batch_size : 1..SchedBatch, queues_size : {1}, use_threads : {FALSE},
     nthreads : {1}, shuffle_at_each_epoch : BOOLEAN,
     infinite_iterator : {FALSE}]

SchedNameSets ==
    {[k \in {"A"} |-> [i \in 1..n |-> i]] : n \in 1..SchedNames}
        \cup {[k \in Keys |-> [i \in 1..(IF k = "A" THEN n ELSE m) |-> i]] :
                n \in 1..SchedPair, m \in 1..SchedPair}

\* a cap on the sequences per subset only with subsets of up to SchedPair
InitSched ==
    /\ InitWith(SchedArgs, SchedNameSets)
    /\ args.seq_per_video > 0 =>
          /\ DOMAIN names_per_subset = {"A"}
          /\ Len(names_per_subset["A"]) <= SchedPair

NextSched ==
    Construct \/ CallStep \/ StepSync \/ StepSyncReturn \/ CallReset

SpecSched == InitSched /\ [][NextSched]_vars

\* the label mapper on its own: class attributes with and without GTclasses
VoidLists ==
    UNION {[1..n -> 0..MaxLabel] : n \in 0..MaxVoid}

\* GTclasses as a dataset may list it: the labels of a subset of 0..MaxGT in
\* descending order, or the list of the docstring (lines 83-84)
RECURSIVE Reverse(_)
Reverse(s) == IF s = <<>> THEN <<>> ELSE Reverse(Tail(s)) \o <<Head(s)>>

DocGTclasses == <<0, 2, 5, 9, 11, 12, 99>>
DocVoidLabels == <<2, 99>>

MapAttrs ==
    [non_void_nclasses : (0 - 1)..MaxClasses, void_labels : VoidLists,
     has_GTclasses : {FALSE}, GTclasses : {<<>>}]
    \cup [non_void_nclasses : (0 - 1)..MaxClasses, void_labels : VoidLists,
          has_GTclasses : {TRUE},
          GTclasses : {Reverse(SortSet(S)) : S \in SUBSET (0..MaxGT)}]
    \cup {[non_void_nclasses |-> 5, void_labels |-> DocVoidLabels,
           has_GTclasses |-> TRUE, GTclasses |-> DocGTclasses]}

MapArgs ==
    [seq_per_video : {0}, seq_length : {0}, overlap : {None},
     batch_size : {1}, queues_size : {1}, use_threads : {FALSE},
     nthreads : {1}, shuffle_at_each_epoch : {FALSE},
     infinite_iterator : {FALSE}]

InitMap == InitLabelled(MapArgs, LiteNameSets, MapAttrs)

SpecMap == InitMap /\ [][CallGetMapping]_vars

\* the remapping of the labels of one sample, as load_sequence returned them
InitRemap ==
    /\ InitBase(MapArgs, LiteNameSets, MapAttrs)
    /\ seq_y0 \in LabelArrays(class_attrs)
    /\ seq_y = seq_y0

SpecRemap == InitRemap /\ [][RemapLabels]_vars


\* ================================================================= claims
Prefetch == status = "ready" /\ args.use_threads

\* C1: with threads, one fetcher, seq_per_video = 0 and no fetch error, as
\* long as only step() is called every Batch step() returns is the Batch
\* the synchronous loader returns at the same position of the sequence.
C1_SingleWorkerMatchesSync ==
    (Prefetch /\ args.nthreads = 1 /\ args.seq_per_video = 0) => same


\* C2: after step() calls only, a finish() that has started returns: every
\* sentinel is put, every fetcher exits (threads scheduled fairly, fetches
\* ending).
C2_FinishTerminates ==
    (Prefetch /\ history = "finish1" /\ cpc \in {"finish_put", "finish_wait"})
        ~> (outcome = Outcome("finish", "returned", NoBatch) /\ ~AnyAlive)

\* C3: with threads, a non-infinite iterator and no fetch error, when step()
\* rebuilds the epoch the data queue is empty and exactly nbatches Batches
\* were returned since the last EndOfEpoch.
C3_EpochEndsAfterAllBatches ==
    (Prefetch /\ ~args.infinite_iterator /\ Tracking /\ cpc = "step_rebuild")
        => (data_queue = <<>> /\ epochCount = nbatches)

\* C4: a loader constructed with threads, more than one fetcher and
\* shuffle_at_each_epoch off raises at construction: no queue is filled, no
\* fetcher is started and no call is ever possible.
C4_MultiThreadNeedsShuffle ==
    (args.use_threads /\ args.nthreads > 1 /\ ~args.shuffle_at_each_epoch)
        => /\ status \in {"new", "NotImplementedError"}
           /\ cpc = "new"
           /\ names_queue = <<>> /\ data_queue = <<>>
           /\ \A w \in Threads : wpc[w] = "none"

C4_Witness ==
    /\ status = "NotImplementedError"
    /\ args.use_threads /\ args.nthreads > 1 /\ ~args.shuffle_at_each_epoch

C6_FatalFailureIsRaised ==
    (outcome.call = "step" /\ outcome.kind = "Batch") => outcome.item = "ok"

\* C7: with threads, a turn of the loop of step() that starts when no fetcher
\* is alive ends the main thread at once, leaving both queues as they are.
C7_NoFetcherAliveExits ==
    [][(/\ Prefetch
        /\ cpc = "step_loop"
        /\ \A df \in data_fetchers : wpc[df] = "dead")
       => (/\ cpc' = "exited"
           /\ outcome'.kind = "SystemExit"
           /\ UNCHANGED <<namesQVars, dataQVars>>)]_vars

C7_Witness ==
    /\ cpc = "exited"
    /\ \A df \in data_fetchers : wpc[df] = "dead"
    /\ outcome = Outcome("step", "SystemExit", NoBatch)

\* C8: a reset() with threads reaches the refill of the names queue, and at
\* that moment both queues are empty and no fetcher holds a batch.
C8_ResetRefillsDrainedQueues ==
    (Prefetch /\ cpc = "reset_lock")
        ~> (/\ cpc = "reset_refill"
            /\ names_queue = <<>> /\ data_queue = <<>>
            /\ \A df \in data_fetchers : wpc[df] \notin {"fetch", "task_done"})


\* the arguments the windower claims are about
ValidWindowing ==
    /\ status = "ready"
    /\ seq_length >= 1
    /\ 0 <= overlap /\ overlap < seq_length

\* C9: for seq_length >= 1, 0 <= overlap < seq_length and non-empty subsets,
\* every window has exactly seq_length names and every name of it carries
\* the key of the subset the window is stored under.
C9_WindowLengthAndSubset ==
    ValidWindowing =>
        \A k \in DOMAIN names_sequences :
            \A i \in 1..Len(names_sequences[k]) :
                /\ Len(names_sequences[k][i]) = seq_length
                /\ \A j \in 1..seq_length : names_sequences[k][i][j][1] = k

C9_Witness ==
    /\ ValidWindowing
    /\ seq_length = 2 /\ overlap = 1
    /\ DOMAIN names_sequences = Keys
    /\ Len(names_sequences["B"]) >= 3

\* the positions of the padded sequence the i-th retained window covers
WindowPositions(i) ==
    {(i - 1) * (seq_length - overlap) + j : j \in 1..seq_length}

\* C10: for 0 <= overlap < seq_length the retained windows of a subset are
\* the windows of the padded sequence at the offsets 0, seq_length - overlap,
\* 2 * (seq_length - overlap), ... that fit; consecutive ones share exactly
\* overlap positions; [f0..f4] with seq_length 3 and overlap 1 gives
\* [f0,f0,f1], [f1,f2,f3], [f3,f4,f4].
C10_RetainedWindows ==
    ValidWindowing =>
        \A k \in DOMAIN names_sequences :
            LET padded == extended_names(names_per_subset[k], seq_length)
                step == seq_length - overlap
                wins == names_sequences[k]
            IN  /\ Len(wins) = ((Len(padded) - seq_length) \div step) + 1
                /\ \A i \in 1..Len(wins) :
                      wins[i] = [j \in 1..seq_length |->
                                   <<k, padded[(i - 1) * step + j]>>]
                /\ \A i \in 1..(Len(wins) - 1) :
                      Cardinality(WindowPositions(i)
                                  \cap WindowPositions(i + 1)) = overlap
                /\ (Len(names_per_subset[k]) = 5 /\ seq_length = 3
                        /\ overlap = 1)
                     => wins = << <<<<k, 1>>, <<k, 1>>, <<k, 2>>>>,
                                  <<<<k, 2>>, <<k, 3>>, <<k, 4>>>>,
                                  <<<<k, 4>>, <<k, 5>>, <<k, 5>>>> >>

C10_Witness ==
    /\ ValidWindowing
    /\ seq_length = 3 /\ overlap = 1
    /\ "A" \in DOMAIN names_sequences
    /\ Len(names_per_subset["A"]) = 5
    /\ Len(names_sequences["A"]) = 3

\* the number of stride-1 windows of subset k, before the overlap filter
StrideOneCount(k) ==
    Len(stride_sequences(k, names_per_subset[k], seq_length))

\* C11 (as stated): a subset of L >= 1 names gives L + seq_length - 1
\* stride-1 windows before the overlap filter.
C11_StrideOneCount ==
    status = "ready" =>
        \A k \in DOMAIN names_per_subset :
            StrideOneCount(k) = Len(names_per_subset[k]) + seq_length - 1

\* C11 (amended): a subset of L >= 1 names gives
\* L + 2 * (seq_length // 2) - seq_length + 1 stride-1 windows, that is L for
\* an odd and L + 1 for an even seq_length; with overlap = seq_length - 1 the
\* subset keeps all of them.
C11_StrideOneCountPadded ==
    status = "ready" =>
        \A k \in DOMAIN names_per_subset :
            /\ StrideOneCount(k) =
                 Len(names_per_subset[k]) + 2 * (seq_length \div 2)
                    - seq_length + 1
            /\ StrideOneCount(k) =
                 Len(names_per_subset[k]) + (IF seq_length % 2 = 0 THEN 1 ELSE 0)
            /\ seq_length - overlap = 1 =>
                 Len(names_sequences[k]) = StrideOneCount(k)

C11_Witness ==
    /\ status = "ready"
    /\ seq_length = 3 /\ overlap = 2
    /\ "A" \in DOMAIN names_per_subset
    /\ Len(names_per_subset["A"]) = 5
    /\ Len(names_sequences["A"]) = 5

\* the overlap argument lies outside 0 <= overlap < seq_length
OverlapOutOfRange ==
    /\ OverlapGiven(args)
    /\ \/ OverlapArg(args) < 0
       \/ OverlapArg(args) >=
            (IF args.seq_length # 0 THEN args.seq_length ELSE 1)

\* C12 (as stated): construction with an overlap outside
\* 0 <= overlap < seq_length fails, and no window is built.
C12_OverlapOutOfRangeFails ==
    (status # "new" /\ OverlapOutOfRange) =>
        (status # "ready" /\ names_sequences = <<>>)

\* C12 (amended): construction with seq_length >= 1 and overlap >= seq_length
\* fails with the ValueError of line 180 (after the thread check) and builds
\* no window and no batch; a negative overlap passes that check, and the
\* loader is built whenever every subset has a name.
C12_OverlapTooLargeFails ==
    /\ (status # "new" /\ args.seq_length >= 1 /\ OverlapGiven(args)
            /\ OverlapArg(args) >= args.seq_length)
        => /\ status = IF ThreadCheck(args) THEN "NotImplementedError"
                       ELSE "ValueError"
           /\ names_sequences = <<>> /\ names_batches = <<>>
    /\ (status # "new" /\ OverlapGiven(args) /\ OverlapArg(args) < 0
            /\ ~ThreadCheck(args)
            /\ DOMAIN names_per_subset # {}
            /\ \A k \in DOMAIN names_per_subset : names_per_subset[k] # <<>>)
        => status = "ready"

C12_Witness ==
    /\ status = "ValueError"
    /\ args.seq_length = 2
    /\ OverlapGiven(args) /\ OverlapArg(args) = 3
    /\ names_per_subset # <<>>

\* the windows of a batch that are not the fill value None
NonAbsent(g) == Cardinality({j \in 1..Len(g) : g[j] # None})

RECURSIVE SumNonAbsent(_)
SumNonAbsent(batches) ==
    IF batches = <<>> THEN 0
    ELSE NonAbsent(Head(batches)) + SumNonAbsent(Tail(batches))

\* without threads the iterator holds the whole epoch iff nothing was taken
FreshEpoch ==
    status = "ready" /\ ~args.use_threads /\ Len(names_batches) = nbatches

\* C13: whatever built the epoch (the constructor, reset, the end of an
\* epoch in step), nbatches = ceil(nsamples / batch_size), every batch but
\* the last holds batch_size windows, and the windows of the whole epoch
\* number nsamples; 10 windows in batches of 4 give sizes 4, 4, 2.
C13_EpochPartition ==
    (status = "ready" /\ ~args.use_threads) =>
        /\ nbatches = (nsamples + args.batch_size - 1) \div args.batch_size
        /\ Len(names_batches) <= nbatches
        /\ \A i \in 1..(Len(names_batches) - 1) :
              NonAbsent(names_batches[i]) = args.batch_size
        /\ \A i \in 1..Len(names_batches) :
              /\ Len(names_batches[i]) = args.batch_size
              /\ NonAbsent(names_batches[i]) >= 1
        /\ FreshEpoch =>
              /\ SumNonAbsent(names_batches) = nsamples
              /\ (nsamples = 10 /\ args.batch_size = 4) =>
                    [i \in 1..3 |-> NonAbsent(names_batches[i])] = <<4, 4, 2>>

C13_Witness ==
    /\ FreshEpoch
    /\ nsamples = 10 /\ args.batch_size = 4
    /\ args.shuffle_at_each_epoch
    /\ outcome = Outcome("step", "EndOfEpoch", NoBatch)
    /\ NonAbsent(names_batches[3]) = 2

\* the epoch of the unshuffled windows, in the order of the subsets
UnshuffledEpoch == grouper(Flat0(names_sequences), args.batch_size)

\* a step that builds the epoch without shuffling: the constructor or the end
\* of an epoch in step() with shuffle_at_each_epoch off, or a reset() that
\* leaves the generator alone
RebuildsUnshuffled ==
    /\ ~args.use_threads /\ args.seq_per_video = 0
    /\ \/ status = "new" /\ status' = "ready" /\ ~args.shuffle_at_each_epoch
       \/ /\ status = "ready" /\ cpc = "step_loop" /\ names_batches = <<>>
          /\ ~args.shuffle_at_each_epoch
       \/ /\ status = "ready" /\ cpc = "idle" /\ cpc' = "idle"
          /\ outcome'.call = "reset" /\ rng' = rng

\* C14: with seq_per_video = 0 every rebuild of the epoch without shuffling
\* yields the same batches, in the same order, with the same windows in each
\* batch -- those of the unshuffled windows -- and leaves the seeded
\* generator where it was.
C14_UnshuffledRebuildRepeats ==
    [][RebuildsUnshuffled =>
        /\ names_batches' = UnshuffledEpoch'
        /\ nbatches' = Len(UnshuffledEpoch')
        /\ rng' = rng]_vars

C14_Witness ==
    /\ FreshEpoch
    /\ args.seq_per_video = 0 /\ ~args.shuffle_at_each_epoch
    /\ DOMAIN names_per_subset = Keys
    /\ args.batch_size = 2 /\ nbatches = 2
    /\ outcome = Outcome("step", "EndOfEpoch", NoBatch)
    /\ history = "steps"
    /\ names_batches = UnshuffledEpoch

\* the epochs the end of an epoch may build without threads
NextEpochs ==
    {fr.names_batches :
        fr \in FillNamesBatches(names_sequences, args.shuffle_at_each_epoch,
                                rng)}

\* C15: without threads, with a non-infinite iterator and a fetch that does
\* not raise, a call of step() hands out the first batch the iterator still
\* holds and moves the iterator by one; on an exhausted iterator it signals
\* EndOfEpoch once, having rebuilt the whole epoch with shuffle_at_each_epoch,
\* so that the next call hands out the first batch of the new epoch; as long
\* as only step() was called, the Batches handed out since the last
\* EndOfEpoch are as many as the iterator has moved.
C15_SyncEpochOrder ==
    [][(status = "ready" /\ ~args.use_threads /\ ~args.infinite_iterator
            /\ errors' = errors)
       => /\ (cpc = "step_loop" /\ names_batches # <<>>)
              => /\ cpc' = "step_return"
                 /\ data_batch' = Result("ok", Head(names_batches))
                 /\ names_batches' = Tail(names_batches)
                 /\ nbatches' = nbatches
          /\ cpc = "step_return"
              => /\ cpc' = "idle"
                 /\ data_batch.kind = "ok"
                 /\ outcome' = Outcome("step", "Batch", data_batch)
                 /\ names_batches' = names_batches
          /\ (cpc = "step_loop" /\ names_batches = <<>>)
              => /\ cpc' = "idle"
                 /\ outcome' = Outcome("step", "EndOfEpoch", NoBatch)
                 /\ names_batches' \in NextEpochs
                 /\ Len(names_batches') = nbatches' /\ nbatches' >= 1
                 /\ rng' = IF args.shuffle_at_each_epoch
                           THEN NextRng(rng) ELSE rng
          /\ Tracking'
              => epochCount' =
                    Min(nbatches' - Len(names_batches')
                            - (IF cpc' = "step_return" THEN 1 ELSE 0),
                        EngNames + 1)]_vars

C15_Witness ==
    /\ status = "ready" /\ ~args.use_threads /\ ~args.infinite_iterator
    /\ Tracking
    /\ args.shuffle_at_each_epoch /\ rng = NextRng(NextRng(0))
    /\ cpc = "idle" /\ outcome = Outcome("step", "Batch", Result("ok", <<>>))
    /\ nbatches = 3 /\ Len(names_batches) = 2 /\ epochCount = 1

\* class attributes that mean what lines 32-43 say they mean: there are
\* non_void_nclasses >= 1 non-void classes, the void labels are distinct
\* labels of the dataset
ValidAttrs ==
    LET a == class_attrs
        void == SetOf(a.void_labels)
    IN  /\ a.non_void_nclasses >= 1
        /\ Cardinality(void) = Len(a.void_labels)
        /\ IF a.has_GTclasses
           THEN /\ void \subseteq SetOf(a.GTclasses)
                /\ Cardinality(SetOf(a.GTclasses) \ void) = a.non_void_nclasses
           ELSE void \subseteq
                    0..(a.non_void_nclasses + Len(a.void_labels) - 1)

MapImage == {mapping.map[k] : k \in DOMAIN mapping.map}

DocImplicitMapping ==
    [i \in 0..5 |-> CASE i = 3 -> 4 [] i = 4 -> 3 [] i = 5 -> 4 [] OTHER -> i]

\* the mapping of lines 85-91
DocExplicitMapping ==
    [cl \in SetOf(DocGTclasses) |->
        CASE cl = 0 -> 0 [] cl = 2 -> 5 [] cl = 5 -> 1 [] cl = 9 -> 2
          [] cl = 11 -> 3 [] cl = 12 -> 4 [] OTHER -> 5]

\* C17: the mapping sends every void label to non_void_nclasses and every
\* other label to the number of non-void labels below it, with GTclasses and
\* without; the two examples of the docstring come out as written there.
C17_MappingIsRank ==
    (mapping.built /\ ValidAttrs) =>
        /\ \A k \in DOMAIN mapping.map :
              mapping.map[k] =
                 IF k \in SetOf(class_attrs.void_labels)
                 THEN class_attrs.non_void_nclasses
                 ELSE Cardinality({j \in DOMAIN mapping.map :
                         j < k /\ j \notin SetOf(class_attrs.void_labels)})
        /\ (~class_attrs.has_GTclasses /\ class_attrs.non_void_nclasses = 4
                /\ class_attrs.void_labels = <<3, 5>>)
              => mapping.map = DocImplicitMapping
        /\ (class_attrs.has_GTclasses /\ class_attrs.GTclasses = DocGTclasses
                /\ class_attrs.void_labels = DocVoidLabels)
              => mapping.map = DocExplicitMapping

\* class attributes the mapping cannot be built for
UnplaceableAttrs ==
    \/ class_attrs.non_void_nclasses <= 0
    \/ /\ ~class_attrs.has_GTclasses
       /\ \E v \in SetOf(class_attrs.void_labels) :
             v \notin 0..(class_attrs.non_void_nclasses
                            + Len(class_attrs.void_labels) - 1)

\* C18: for non_void_nclasses <= 0, or a void label outside
\* 0..non_void_nclasses + len(_void_labels) - 1 without GTclasses,
\* _get_mapping() raises and returns no mapping.
C18_UnplaceableAttrsFail ==
    UnplaceableAttrs => ~mapping.built

\* what a fetcher holds between names_queue.get() and the end of that turn
\* of its loop: a batch taken and not pushed, or pushed and not acknowledged
InFlight == {"fetch", "task_done", "exc_done", "raised"}

\* C19: a fetcher that took a batch of names leaves the fetch by one
\* data_queue.put of one item, and leaves the point after that put by one
\* names_queue.task_done() that takes it back to names_queue.get(); nothing
\* else puts into data_queue. So whenever names_queue has no unfinished
\* task, it is empty and no fetcher holds a batch whose result is not yet in
\* data_queue.
C19_OnePutThenOneAck ==
    /\ [][\A w \in Threads :
            /\ (wpc[w] = "get" /\ wpc'[w] # "get")
                => wpc'[w] \in {"fetch", "sentinel"}
            /\ (wpc[w] = "fetch" /\ wpc'[w] # "fetch")
                => /\ wpc'[w] \in {"task_done", "exc_done"}
                   /\ Len(data_queue') = Len(data_queue) + 1
                   /\ names_unfinished' = names_unfinished
            /\ (wpc[w] \in {"task_done", "exc_done"} /\ wpc'[w] # wpc[w])
                => /\ wpc'[w] = "get"
                   /\ names_unfinished' = names_unfinished - 1
                   /\ data_queue' = data_queue]_vars
    /\ [][Len(data_queue') > Len(data_queue)
            => \E w \in Threads : wpc[w] = "fetch" /\ wpc'[w] # "fetch"]_vars
    /\ []((Prefetch /\ names_unfinished = 0)
            => /\ names_queue = <<>>
               /\ \A w \in Threads : wpc[w] \notin InFlight)

C19_Witness ==
    /\ Prefetch
    /\ names_unfinished = 0
    /\ errors > 0
    /\ data_queue # <<>>
    /\ \A w \in data_fetchers : wpc[w] = "get"

\* the main thread is about to call names_queue.put: the refill after a
\* pop (lines 386-388) or one turn of _init_names_queue at the end of an
\* epoch (lines 341-342)
StepAboutToPut ==
    /\ Prefetch
    /\ names_batches # <<>>
    /\ \/ cpc = "step_refill"
       \/ cpc = "step_init" /\ loopi > 0

\* C20: whenever step() is about to put a batch of names into names_queue,
\* after a pop or at the end of an epoch, names_queue is not full: the put
\* does not wait for a fetcher.
C20_StepPutHasRoom ==
    StepAboutToPut => NamesRoom

\* one sequence of one (prefix, name) pair per name of the subset, in order
SingleNameWindows(k) ==
    [i \in 1..Len(names_per_subset[k]) |-> <<<<k, names_per_subset[k][i]>>>>]

\* C21: a loader built with seq_length 1, or with seq_length 0 (4D arrays),
\* has overlap 0 whatever overlap was passed, and every subset of L names
\* gives L sequences of one name each, in the order of the names.
C21_SingleFrameOverlapZero ==
    (status = "ready" /\ seq_length = 1)
        => /\ overlap = 0
           /\ \A k \in DOMAIN names_per_subset :
                  names_sequences[k] = SingleNameWindows(k)

\* batches of names waiting in names_queue, held by a fetcher that has not
\* yet put their result, and results waiting in data_queue
InCirculation ==
    Len(names_queue)
        + Cardinality({w \in data_fetchers : wpc[w] \in {"fetch", "raised"}})
        + Len(data_queue)

\* C22: with threads, after any steps of step() and of the fetchers, the
\* batches waiting in names_queue, those held by fetchers and the items in
\* data_queue are together at most queues_size; so a fetcher that is about
\* to put its result finds room in data_queue.
C22_Backpressure ==
    (Prefetch /\ history = "steps")
        => /\ InCirculation <= args.queues_size
           /\ \A w \in data_fetchers :
                  wpc[w] \in {"fetch", "raised"} => DataRoom

\* C23: with threads, step() rebuilds the batches of the epoch (line 397)
\* only when names_batches is exhausted: every batch of the epoch was put
\* into names_queue before, whatever fetches raised an IOError.
C23_RebuildOnlyWhenExhausted ==
    (Prefetch /\ cpc = "step_rebuild") => names_batches = <<>>

\* C24: with threads, under fair scheduling of the main thread and of the
\* fetchers, every reset() that was called returns to its caller.
C24_ResetReturns ==
    (Prefetch /\ cpc \in {"reset_lock", "reset_drain"})
        ~> (/\ cpc = "idle"
            /\ outcome.call = "reset"
            /\ outcome.kind = "returned")

\* C25: after the labels of a sample were remapped in place, every entry
\* whose original label is a key of the mapping holds the mapping of that
\* original label: no entry is rewritten a second time through the value
\* it was given.
C25_RemapAppliesMapping ==
    (mapping.built /\ seq_y0 # <<>>)
        => \A i \in DOMAIN seq_y0 :
              seq_y0[i] \in DOMAIN mapping.map
                  => seq_y[i] = mapping.map[seq_y0[i]]

====
